---- MODULE Spec2Model ----
(***************************************************************************)
(* Model of the review category / aspect dashboard.                        *)
(*                                                                         *)
(*   src/pages/1_Data_Upload.py    parse_aspects (aspect field parser)      *)
(*   src/utils.py                  load_category_data,                      *)
(*                                 analyze_category_aspects,                *)
(*                                 create_aspect_category_matrix            *)
(*   src/pages/3_Category_Analysis.py   the page script                     *)
(*                                                                         *)
(* Four specifications:                                                    *)
(*   SpecParse  one raw aspect field parsed at the two call sites          *)
(*   Spec       one run of the Category Analysis page on a file            *)
(*   SpecCache  uploads and page runs of one server process                *)
(*   SpecCalls  the functions of utils.py called with explicit arguments   *)
(*                                                                         *)
(* A Python str is a sequence of one-character strings.  A Python value    *)
(* (the result of ast.literal_eval) is a record [t, v]: t = "str" with v   *)
(* the characters, or t = "list" / "tuple" with v the sequence of values.  *)
(***************************************************************************)
EXTENDS Integers, Sequences, FiniteSets, TLC

\* ------------------------------------------------------------------ bounds
\* Longest raw aspect field enumerated character by character.
MaxLen == 5
\* Longest parsed aspect list of a category row of the file.
MaxList == 2

\* ------------------------------------------------------------- characters
\* The characters raw fields are built from.  The letters are not string
\* prefixes of Python (r, b, u, f), so a letter before a quote is a name.
Letters == {"a", "c"}
Chars == {"[", "]", "'", ",", " "} \cup Letters

StrsOfLen(n) == [1..n -> Chars]

AllStrs == UNION {StrsOfLen(n) : n \in 0..MaxLen}

\* ---------------------------------------------------------- str methods
startswith(s, ch) == Len(s) > 0 /\ s[1] = ch
endswith(s, ch) == Len(s) > 0 /\ s[Len(s)] = ch

RECURSIVE lstrip(_)
lstrip(s) == IF Len(s) > 0 /\ s[1] = " " THEN lstrip(Tail(s)) ELSE s

RECURSIVE rstrip(_)
rstrip(s) ==
    IF Len(s) > 0 /\ s[Len(s)] = " " THEN rstrip(SubSeq(s, 1, Len(s) - 1)) ELSE s

strip(s) == rstrip(lstrip(s))

\* val.split(','): the pieces between commas, left to right, empty pieces kept.
RECURSIVE splitFrom(_, _, _)
splitFrom(s, cur, acc) ==
    IF s = <<>> THEN Append(acc, cur)
    ELSE IF s[1] = "," THEN splitFrom(Tail(s), <<>>, Append(acc, cur))
    ELSE splitFrom(Tail(s), Append(cur, s[1]), acc)

split(s) == splitFrom(s, <<>>, <<>>)

\* Mutant of stripNonEmpty: [a.strip() for a in val.split(',')], the empty
\* tokens kept.
stripAll(parts) == [i \in 1..Len(parts) |-> strip(parts[i])]

\* [a.strip() for a in val.split(',') if a.strip()]
RECURSIVE stripNonEmpty(_)
stripNonEmpty(parts) ==
    IF parts = <<>> THEN <<>>
    ELSE IF strip(parts[1]) # <<>>
         THEN <<strip(parts[1])>> \o stripNonEmpty(Tail(parts))
         ELSE stripNonEmpty(Tail(parts))

\* Mutant of comma_split: [a for a in val.split(',') if a.strip()], the
\* tokens kept untrimmed.
comma_split_untrimmed(s) ==
    LET NonBlank(a) == strip(a) # <<>> IN SelectSeq(split(s), NonBlank)

comma_split(s) == stripNonEmpty(split(s))

\* ------------------------------------------------------- ast.literal_eval
\* Python values.
PyStr(chars) == [t |-> "str", v |-> chars]
PyList(items) == [t |-> "list", v |-> items]
PyTuple(items) == [t |-> "tuple", v |-> items]
isinstance_list(x) == x.t = "list"

\* A parse step: failed (SyntaxError, or a node literal_eval rejects with
\* ValueError: a name, a subscript), or a value and the index of the next
\* token.
Bad == [ok |-> FALSE, val |-> PyStr(<<>>), pos |-> 0]
Good(value, next) == [ok |-> TRUE, val |-> value, pos |-> next]

RECURSIVE SkipWs(_, _)
SkipWs(s, i) == IF i <= Len(s) /\ s[i] = " " THEN SkipWs(s, i + 1) ELSE i

\* The index of the first quote at or after i, 0 when there is none.
RECURSIVE FindQuote(_, _)
FindQuote(s, i) ==
    IF i > Len(s) THEN 0 ELSE IF s[i] = "'" THEN i ELSE FindQuote(s, i + 1)

\* The index of the first three quotes in a row at or after i, 0 when none.
RECURSIVE FindTriple(_, _)
FindTriple(s, i) ==
    IF i + 2 > Len(s) THEN 0
    ELSE IF s[i] = "'" /\ s[i + 1] = "'" /\ s[i + 2] = "'" THEN i
    ELSE FindTriple(s, i + 1)

\* One or more adjacent string literals (Python concatenates them); s[i] is
\* the opening quote.  Three quotes open a triple-quoted literal, closed by
\* the next three.  An unterminated literal is a SyntaxError.
RECURSIVE ParseStrings(_, _, _)
ParseStrings(s, i, acc) ==
    LET triple == FindTriple(s, i) = i
        j == IF triple THEN FindTriple(s, i + 3) ELSE FindQuote(s, i + 1)
        open == IF triple THEN 3 ELSE 1
    IN  IF j = 0 THEN Bad
        ELSE LET acc2 == acc \o SubSeq(s, i + open, j - 1)
                 k == SkipWs(s, j + open)
             IN  IF k <= Len(s) /\ s[k] = "'" THEN ParseStrings(s, k, acc2)
                 ELSE Good(PyStr(acc2), k)

\* An atom at i: a string, or a list display.  A name is no literal; an atom
\* followed by "[" is a subscript, which literal_eval rejects.
RECURSIVE ParseAtom(_, _)
RECURSIVE ParseElts(_, _, _)
ParseAtom(s, i) ==
    LET r == IF i > Len(s) THEN Bad
             ELSE IF s[i] = "'" THEN ParseStrings(s, i, <<>>)
             ELSE IF s[i] = "[" THEN ParseElts(s, SkipWs(s, i + 1), <<>>)
             ELSE Bad
    IN  IF ~r.ok THEN Bad
        ELSE IF r.pos <= Len(s) /\ s[r.pos] = "[" THEN Bad
        ELSE r

\* The elements of a list display up to its "]" (a trailing comma is allowed).
ParseElts(s, i, acc) ==
    IF i > Len(s) THEN Bad
    ELSE IF s[i] = "]" THEN Good(PyList(acc), SkipWs(s, i + 1))
    ELSE LET r == ParseAtom(s, i) IN
         IF ~r.ok \/ r.pos > Len(s) THEN Bad
         ELSE IF s[r.pos] = ","
              THEN ParseElts(s, SkipWs(s, r.pos + 1), Append(acc, r.val))
         ELSE IF s[r.pos] = "]"
              THEN Good(PyList(Append(acc, r.val)), SkipWs(s, r.pos + 1))
         ELSE Bad

\* After a top-level comma: the expression is a tuple without parentheses.
RECURSIVE ParseTuple(_, _, _)
ParseTuple(s, i, acc) ==
    IF i > Len(s) THEN Good(PyTuple(acc), i)
    ELSE LET r == ParseAtom(s, i) IN
         IF ~r.ok THEN Bad
         ELSE IF r.pos > Len(s) THEN Good(PyTuple(Append(acc, r.val)), r.pos)
         ELSE IF s[r.pos] = ","
              THEN ParseTuple(s, SkipWs(s, r.pos + 1), Append(acc, r.val))
         ELSE Bad

\* ast.literal_eval(s): .ok is FALSE when it raises.
literal_eval(s) ==
    LET r == ParseAtom(s, SkipWs(s, 1)) IN
    IF ~r.ok THEN Bad
    ELSE IF r.pos > Len(s) THEN r
    ELSE IF s[r.pos] = "," THEN ParseTuple(s, SkipWs(s, r.pos + 1), <<r.val>>)
    ELSE Bad

\* --------------------------------------------------------- parse_aspects
\* [a.strip() for a in val.split(',') if a.strip()] as a Python list of str.
RECURSIVE PyStrs(_)
PyStrs(seq) == IF seq = <<>> THEN <<>> ELSE <<PyStr(seq[1])>> \o PyStrs(Tail(seq))

\* parse_aspects(val) of the Data Upload page (both copies are the same text).
parse_aspects(val) ==
    IF startswith(val, "[") /\ endswith(val, "]")
    THEN LET r == literal_eval(val) IN
         IF r.ok THEN r.val ELSE PyList(<<>>)
    ELSE PyList(PyStrs(comma_split(val)))

\* The value pandas holds for an absent field (None / NaN): no str.
NaN == <<"NaN">>
notnull(x) == x # NaN
isinstance_str(x) == x # NaN

\* df['aspects'].apply(lambda x: parse_aspects(str(x)) if pd.notnull(x) else [])
aspects_list_cell(x) == IF notnull(x) THEN parse_aspects(x) ELSE PyList(<<>>)

\* ------------------------------------------------ the category collection
\* DataFrames: None, or the column names and the rows (records).
NoneFrame == [none |-> TRUE, columns |-> <<>>, rows |-> <<>>]
Frame(cols, rws) == [none |-> FALSE, columns |-> cols, rows |-> rws]
HasColumn(df, col) == \E i \in 1..Len(df.columns) : df.columns[i] = col

\* Category names, unique; a file of n rows holds the first n of them.
NameSeq == <<"Electronics", "Food">>
\* Declared aspect counts (they need not agree with the aspect field).
AspectsCounts == {0, 1, 2}
\* Aspect strings of the files; they differ in case only.
FileAspects == {<<"a">>, <<"A">>}

ListsOfLen(n) == [1..n -> FileAspects]

AspectLists == UNION {ListsOfLen(n) : n \in 0..MaxList}

\* str(list) as to_csv writes a list-valued cell: "['a', 'A']".
RECURSIVE repr_items(_)
repr_items(l) ==
    IF l = <<>> THEN <<>>
    ELSE <<"'">> \o l[1] \o <<"'">>
         \o (IF Len(l) > 1 THEN <<",", " ">> ELSE <<>>) \o repr_items(Tail(l))

repr_list(l) == <<"[">> \o repr_items(l) \o <<"]">>

\* The aspect fields a file row may hold: a list literal, a plain
\* comma-separated string, a malformed literal (unbalanced quote), nothing.
PlainField == <<"a", ",", " ", "A">>
MalformedField == <<"[", "'", "a", "]">>
FileFields == {repr_list(l) : l \in AspectLists} \cup {PlainField, MalformedField, NaN}

FileRows(n) ==
    {[i \in 1..n |-> [name |-> NameSeq[i], aspectsCount |-> cnt[i], aspects |-> fld[i]]] :
        cnt \in [1..n -> AspectsCounts], fld \in [1..n -> FileFields]}

\* A CSV file: its header and its records.
CsvFile(cols, rws) == [columns |-> cols, rows |-> rws]
CsvColumns == <<"name", "aspectsCount", "aspects">>

\* The two categories of the end-to-end scenario.
ProductPrice == <<"P", "r", "o", "d", "u", "c", "t", "/", "P", "r", "i", "c", "e">>
ServiceStaff == <<"S", "e", "r", "v", "i", "c", "e", "/", "S", "t", "a", "f", "f">>
ExampleListField ==
    <<"[", "'">> \o ProductPrice \o <<"'", ",", "'">> \o ServiceStaff \o <<"'", "]">>
ExampleFile ==
    CsvFile(CsvColumns,
            <<[name |-> "Electronics", aspectsCount |-> 2, aspects |-> ExampleListField],
              [name |-> "Food", aspectsCount |-> 1, aspects |-> ProductPrice]>>)

Files ==
    {CsvFile(CsvColumns, rws) : rws \in UNION {FileRows(n) : n \in 0..Len(NameSeq)}}
        \cup {ExampleFile}

\* ---------------------------------------------------- load_category_data
\* pd.read_csv(file_path): the columns of a file without a record are read
\* with dtype object, a column of integers with dtype int64.
CategoryFrame(cols, rws, dtype) ==
    [none |-> FALSE, columns |-> cols, rows |-> rws, aspectsCount_dtype |-> dtype]

read_csv(f) ==
    CategoryFrame(f.columns, f.rows, IF f.rows = <<>> THEN "object" ELSE "int64")

\* np.random.RandomState(42).permutation(n), positions counted from 0: the
\* generator seeded with 42 shuffles arange(n) from its last position down,
\* each partner drawn by masked rejection from the 32-bit outputs.
permutation42(n) ==
    CASE n = 0 -> <<>>
      [] n = 1 -> <<0>>
      [] n = 2 -> <<1, 0>>
      [] n = 3 -> <<0, 1, 2>>
      [] n = 4 -> <<1, 3, 0, 2>>

\* df.sample(n=max_rows, random_state=42): the rows at the first n positions
\* of the permutation (RandomState.choice without replacement), in that order.
sample(df, n) ==
    [df EXCEPT !.rows =
        [i \in 1..n |-> df.rows[permutation42(Len(df.rows))[i] + 1]]]

\* lambda x: ast.literal_eval(x) if isinstance(x, str) and
\*           x.strip().startswith("[") else []
\* .ok is FALSE when literal_eval raises.
aspects_parsed_cell(x) ==
    IF isinstance_str(x) /\ startswith(strip(x), "[")
    THEN literal_eval(x)
    ELSE Good(PyList(<<>>), 0)

\* The body of load_category_data(file_path, max_rows), max_rows >= 0: any
\* exception gives None.
load_category_data(f, max_rows) ==
    LET df == read_csv(f)
        kept == IF Len(df.rows) > max_rows THEN sample(df, max_rows) ELSE df
    IN  IF ~HasColumn(kept, "aspects") THEN kept
        ELSE IF \E i \in 1..Len(kept.rows) : ~aspects_parsed_cell(kept.rows[i].aspects).ok
        THEN NoneFrame
        ELSE CategoryFrame(Append(kept.columns, "aspects_parsed"),
                 [i \in 1..Len(kept.rows) |->
                     [name |-> kept.rows[i].name,
                      aspectsCount |-> kept.rows[i].aspectsCount,
                      aspects |-> kept.rows[i].aspects,
                      aspects_parsed |-> aspects_parsed_cell(kept.rows[i].aspects).val]],
                 kept.aspectsCount_dtype)

\* Default argument of load_category_data.
DefaultMaxRows == 500
\* Arguments of the direct calls.
MaxRowsArgs == {0, 1, 2, DefaultMaxRows}

\* ------------------------------------------------------------ variables
VARIABLES
    val,               \* the raw aspect field of a row
    aspects_list,      \* Data Upload: df['aspects_list'] of that row
    ppc,               \* Data Upload: "field" before the parse, "parsed" after
    aspects_parsed,    \* load_category_data: df['aspects_parsed'] of that row
    lpc,               \* load_category_data: "field" before, "parsed" after
    file,              \* example_data/review_categories.csv
    cache,             \* st.cache_data of load_category_data, by max_rows
    category_data,     \* Category Analysis: load_category_data()
    max_rows,          \* the max_rows of that call
    total_categories,
    categories_with_aspects,
    categories_without_aspects,
    avg_aspects,
    avg_metric,        \* the text of the metric "Avg Aspects per Category"
    analysis_results,  \* Category Analysis: analyze_category_aspects(...)
    bottom_aspects,    \* Category Analysis: the least used listing
    matrix_df,         \* the last result of create_aspect_category_matrix
    args,              \* the arguments of that call
    pc,                \* Category Analysis: position in the page script
    sorted_categories, \* Category Analysis, Tab 1: the collection sorted
    categories_no_aspects_df,  \* Category Analysis, Tab 3: the rows listed
    session_state,     \* st.session_state of the browser session
    custom_file        \* example_data/custom_categories_<timestamp>.csv

\* ------------------------------------------------------------- Counter
\* A Counter is a dict: its items in insertion order, as <<key, count>>.
HasKey(items, k) == \E i \in 1..Len(items) : items[i][1] = k

\* Mutant of Incr: counter[k] = 1, the earlier count lost.
Incr_overwrite(items, k) ==
    IF HasKey(items, k)
    THEN [i \in 1..Len(items) |-> IF items[i][1] = k THEN <<k, 1>> ELSE items[i]]
    ELSE Append(items, <<k, 1>>)

\* counter[k] += 1
Incr(items, k) ==
    IF HasKey(items, k)
    THEN [i \in 1..Len(items) |->
             IF items[i][1] = k THEN <<k, items[i][2] + 1>> ELSE items[i]]
    ELSE Append(items, <<k, 1>>)

\* Mutant of update: Counter.update(set(iterable)), every aspect counted
\* once per category.
RECURSIVE update_distinct(_, _)
update_distinct(items, lst) ==
    IF lst = <<>> THEN items
    ELSE update_distinct(
             IF \E i \in 2..Len(lst) : lst[i] = lst[1] THEN items
             ELSE IF HasKey(items, lst[1])
                  THEN [i \in 1..Len(items) |->
                           IF items[i][1] = lst[1]
                           THEN <<lst[1], items[i][2] + 1>> ELSE items[i]]
                  ELSE Append(items, <<lst[1], 1>>),
             Tail(lst))

\* Counter.update(iterable)
RECURSIVE update(_, _)
update(items, lst) ==
    IF lst = <<>> THEN items ELSE update(Incr(items, lst[1]), Tail(lst))

\* for aspects_list in df['aspects_parsed']:
\*     if isinstance(aspects_list, list): aspect_counts.update(aspects_list)
RECURSIVE CountRows(_, _)
CountRows(items, rws) ==
    IF rws = <<>> THEN items
    ELSE CountRows(IF isinstance_list(rws[1].aspects_parsed)
                   THEN update(items, rws[1].aspects_parsed.v)
                   ELSE items,
                   Tail(rws))

\* Mutant of aspect_counts: the Counter is kept between calls (a module-level
\* aspect_counts that is not reset), so it starts from the counts of the
\* table computed last.
aspect_counts_accumulated(df) ==
    CountRows([i \in 1..Len(analysis_results.rows) |->
                  <<analysis_results.rows[i].aspect, analysis_results.rows[i].count>>],
              df.rows)

\* aspect_counts = Counter(); for aspects_list in df['aspects_parsed']: ...
aspect_counts(df) == CountRows(<<>>, df.rows)

\* sorted(items, key=itemgetter(1), reverse=True): a stable sort, so items
\* of equal count keep their order.  Insertion of x after every item whose
\* count is at least x's.
\* Mutant of InsertDesc: a sort that is not stable (equal counts reversed).
RECURSIVE InsertDesc_unstable(_, _)
InsertDesc_unstable(sorted, x) ==
    IF sorted = <<>> THEN <<x>>
    ELSE IF sorted[1][2] > x[2]
         THEN <<sorted[1]>> \o InsertDesc_unstable(Tail(sorted), x)
    ELSE <<x>> \o sorted

RECURSIVE InsertDesc(_, _)
InsertDesc(sorted, x) ==
    IF sorted = <<>> THEN <<x>>
    ELSE IF sorted[1][2] >= x[2] THEN <<sorted[1]>> \o InsertDesc(Tail(sorted), x)
    ELSE <<x>> \o sorted

RECURSIVE SortedDesc(_, _)
SortedDesc(acc, items) ==
    IF items = <<>> THEN acc ELSE SortedDesc(InsertDesc(acc, items[1]), Tail(items))

head(seq, n) == IF n <= 0 THEN <<>> ELSE SubSeq(seq, 1, IF n < Len(seq) THEN n ELSE Len(seq))

\* Counter.most_common(): every item, by descending count.
most_common_all(items) == SortedDesc(<<>>, items)

\* Mutant of most_common: the n largest picked by a selection that is not
\* stable (of equal counts the later inserted first).
RECURSIVE SortedDesc_unstable(_, _)
SortedDesc_unstable(acc, items) ==
    IF items = <<>> THEN acc
    ELSE SortedDesc_unstable(InsertDesc_unstable(acc, items[1]), Tail(items))

most_common_unstable(items, n) == head(SortedDesc_unstable(<<>>, items), n)

\* Counter.most_common(n) is heapq.nlargest(n, items, key=count), which is
\* sorted(items, key=count, reverse=True)[:n], and [] for n <= 0.
most_common(items, n) == head(SortedDesc(<<>>, items), n)

\* ------------------------------------------------ analyze_category_aspects
\* The frequency table: columns aspect and count.
analyze_category_aspects(df) ==
    IF df.none \/ ~HasColumn(df, "aspects_parsed") THEN NoneFrame
    ELSE LET mc == most_common_all(aspect_counts(df)) IN
         Frame(<<"aspect", "count">>,
               [i \in 1..Len(mc) |-> [aspect |-> mc[i][1], count |-> mc[i][2]]])

\* ------------------------------------------- create_aspect_category_matrix
\* df.nlargest(n, 'aspectsCount') (keep='first'): the n rows of largest
\* aspectsCount by descending aspectsCount, rows of equal aspectsCount in
\* their original order; no row for n <= 0.
RECURSIVE InsertByCount(_, _)
InsertByCount(sorted, r) ==
    IF sorted = <<>> THEN <<r>>
    ELSE IF sorted[1].aspectsCount >= r.aspectsCount
         THEN <<sorted[1]>> \o InsertByCount(Tail(sorted), r)
    ELSE <<r>> \o sorted

RECURSIVE RowsByCount(_, _)
RowsByCount(acc, rws) ==
    IF rws = <<>> THEN acc ELSE RowsByCount(InsertByCount(acc, rws[1]), Tail(rws))

nlargest(rws, n) == head(RowsByCount(<<>>, rws), n)

\* nlargest raises TypeError for a column that is neither numeric nor a
\* datetime: "Column 'aspectsCount' has dtype object, cannot use method
\* 'nlargest' with this dtype".
nlargest_raises(df) == df.aspectsCount_dtype = "object"

\* A dict as its <<key, value>> items in insertion order; d[k] = v.
DictSet(d, k, v) ==
    IF \E i \in 1..Len(d) : d[i][1] = k
    THEN [i \in 1..Len(d) |-> IF d[i][1] = k THEN <<k, v>> ELSE d[i]]
    ELSE Append(d, <<k, v>>)

\* Mutant of contains: the aspect compared without regard to letter case.
contains_ignorecase(lst, x) ==
    LET lower(ch) == IF ch = "A" THEN "a" ELSE ch
        low(e) == [t |-> e.t, v |-> [k \in 1..Len(e.v) |-> lower(e.v[k])]]
    IN  \E i \in 1..Len(lst) : low(lst[i]) = low(x)

\* aspect in aspects_in_category[0]
contains(lst, x) == \E i \in 1..Len(lst) : lst[i] = x

\* df.loc[df['name'] == category, 'aspects_parsed'].values
aspects_in_category(df, category) ==
    LET Sel(r) == r.name = category IN
    [i \in 1..Len(SelectSeq(df.rows, Sel)) |-> SelectSeq(df.rows, Sel)[i].aspects_parsed]

\* row[category] = 1 if the first row of that name has a list holding the
\* aspect, else 0.
cell(df, aspect, category) ==
    LET found == aspects_in_category(df, category) IN
    IF Len(found) > 0 /\ isinstance_list(found[1])
    THEN IF contains(found[1].v, aspect) THEN 1 ELSE 0
    ELSE 0

\* The dict of one aspect: 'aspect', then every top category's name.
RECURSIVE matrix_row(_, _, _, _)
matrix_row(df, aspect, cats, row) ==
    IF cats = <<>> THEN row
    ELSE matrix_row(df, aspect, Tail(cats),
                    DictSet(row, cats[1].name, cell(df, aspect, cats[1].name)))

\* pd.DataFrame(list of dicts): the columns are the dicts' keys in order of
\* first appearance; no dict gives a frame with no column at all.
DataFrameOfDicts(dicts) ==
    Frame(IF dicts = <<>> THEN <<>>
          ELSE [j \in 1..Len(dicts[1]) |-> dicts[1][j][1]],
          dicts)

\* The call raises (the exception of nlargest is not caught).
create_aspect_category_matrix_raises(df) ==
    ~df.none /\ HasColumn(df, "aspects_parsed") /\ nlargest_raises(df)

\* The matrix of a call that does not raise.
create_aspect_category_matrix(df, max_aspects, max_categories) ==
    IF df.none \/ ~HasColumn(df, "aspects_parsed") THEN NoneFrame
    ELSE LET top_aspects == most_common(aspect_counts(df), max_aspects)
             top_categories == nlargest(df.rows, max_categories)
             matrix_data ==
                 [i \in 1..Len(top_aspects) |->
                     matrix_row(df, top_aspects[i][1], top_categories,
                                <<<<"aspect", top_aspects[i][1]>>>>)]
         IN  DataFrameOfDicts(matrix_data)

\* Default arguments of create_aspect_category_matrix.
DefaultMaxAspects == 1000
DefaultMaxCategories == 500
\* Arguments of the direct calls.
MaxAspectsArgs == {0, 1, 2, DefaultMaxAspects}
MaxCategoriesArgs == {0, 1, 2, DefaultMaxCategories}

\* ------------------------------------------------- least used aspects
\* The page shows at most this many aspects in each listing.
TopN == 20
Min(a, b) == IF a < b THEN a ELSE b

Perms(n) == {p \in [1..n -> 1..n] : \A i, j \in 1..n : i # j => p[i] # p[j]}

\* aspect_freq.sort_values(by="count", ascending=True): the default kind is
\* quicksort, which is not stable: every ordering by non-decreasing count
\* is a possible result.
sort_values_outcomes(rws) ==
    {[i \in 1..Len(rws) |-> rws[p[i]]] : p \in
        {q \in Perms(Len(rws)) :
            \A i \in 1..(Len(rws) - 1) : rws[q[i]].count <= rws[q[i + 1]].count}}

\* ------------------------------------------------- summary statistics
\* Mutant of len_positive: the rows selected by aspectsCount >= 0.
len_nonnegative(rws) == Cardinality({i \in 1..Len(rws) : rws[i].aspectsCount >= 0})

\* len(category_data[category_data['aspectsCount'] > 0])
len_positive(rws) == Cardinality({i \in 1..Len(rws) : rws[i].aspectsCount > 0})

RECURSIVE sum_aspectsCount(_)
sum_aspectsCount(rws) ==
    IF rws = <<>> THEN 0 ELSE rws[1].aspectsCount + sum_aspectsCount(Tail(rws))

\* A float as the quotient of two integers, or nan.
Float(n, d) == [nan |-> FALSE, num |-> n, den |-> d]
NanFloat == [nan |-> TRUE, num |-> 0, den |-> 1]

\* category_data['aspectsCount'].mean(): nan of a column without a value.
mean(rws) == IF rws = <<>> THEN NanFloat ELSE Float(sum_aspectsCount(rws), Len(rws))

\* f"{avg_aspects:.1f}": "nan" of nan, else the decimal with one digit after
\* the point, held as its number of tenths ("1.5" is 15), rounded half to even.
Text_nan == [nan |-> TRUE, tenths |-> 0]
Text_1f(t) == [nan |-> FALSE, tenths |-> t]
format_1f(x) ==
    IF x.nan THEN Text_nan
    ELSE LET q == (10 * x.num) \div x.den
             r == (10 * x.num) % x.den
         IN  Text_1f(IF 2 * r > x.den \/ (2 * r = x.den /\ q % 2 = 1) THEN q + 1 ELSE q)

\* ------------------------------------------------------------ the tabs
\* category_data.sort_values('aspectsCount', ascending=False): the default
\* kind is quicksort, which is not stable: every ordering by non-increasing
\* aspectsCount is a possible result.
sorted_categories_outcomes(rws) ==
    {[i \in 1..Len(rws) |-> rws[p[i]]] : p \in
        {q \in Perms(Len(rws)) :
            \A i \in 1..(Len(rws) - 1) :
                rws[q[i]].aspectsCount >= rws[q[i + 1]].aspectsCount}}

\* Mutant of sort_values_receiver: the call made with inplace=True, the
\* receiver holding the sorted rows afterwards.
sort_values_inplace(df, sorted) == [df EXCEPT !.rows = sorted]

\* The receiver after df.sort_values(...): the call is made without inplace,
\* the sorted rows are those of a new frame.
sort_values_receiver(df, sorted) == df

\* Mutant of no_aspects_rows: the rows whose parsed aspect list is empty.
no_parsed_aspects_rows(rws) == SelectSeq(rws, LAMBDA r : r.aspects_parsed.v = <<>>)

\* category_data[category_data['aspectsCount'] == 0]
no_aspects_rows(rws) == SelectSeq(rws, LAMBDA r : r.aspectsCount = 0)

\* ------------------------------------------------------------ the files
\* What an upload writes to example_data/review_categories.csv: a frame that
\* is not empty.
UploadFiles == {CsvFile(CsvColumns, rws) : rws \in FileRows(1)}

\* Files with no 'aspects' column.
FilesWithoutAspects ==
    {CsvFile(<<"name", "aspectsCount">>,
             [i \in 1..n |-> [name |-> NameSeq[i], aspectsCount |-> cnt[i]]]) :
        n \in 0..Len(NameSeq), cnt \in [1..Len(NameSeq) -> AspectsCounts]}

\* Files of three categories.
ThreeNames == NameSeq \o <<"Toys">>
ThreeRowFiles ==
    {CsvFile(CsvColumns,
             [i \in 1..3 |-> [name |-> ThreeNames[i], aspectsCount |-> cnt[i],
                              aspects |-> fld[i]]]) :
        cnt \in [1..3 -> {1, 2}],
        fld \in [1..3 -> {repr_list(<<<<"a">>>>), MalformedField}]}

CallFiles == Files \cup FilesWithoutAspects \cup ThreeRowFiles

\* ================================================================ state
uploadVars == <<val, aspects_list, ppc, aspects_parsed, lpc>>
summaryVars == <<total_categories, categories_with_aspects,
                 categories_without_aspects, avg_aspects, avg_metric>>
tabVars == <<sorted_categories, categories_no_aspects_df>>
sessionVars == <<session_state, custom_file>>
pageVars == <<file, cache, category_data, max_rows, summaryVars, analysis_results,
              bottom_aspects, matrix_df, args, pc, tabVars, sessionVars>>

vars == <<uploadVars, pageVars>>

NoArgs == [max_aspects |-> 0, max_categories |-> 0]

\* st.cache_data keeps the value a call returned under the call's arguments
\* (file_path is the default in every call); the file is not part of the key.
Miss == [miss |-> TRUE]
Hit(value) == [miss |-> FALSE, value |-> value]
EmptyCache == [mr \in MaxRowsArgs |-> Miss]

\* load_category_data(max_rows=mr) as decorated.
cached_load_category_data(mr) ==
    IF cache[mr].miss THEN load_category_data(file, mr) ELSE cache[mr].value

\* st.session_state: a key is absent or holds a value.
Absent == [present |-> FALSE]
Present(value) == [present |-> TRUE, value |-> value]
EmptySession ==
    [category_data_path |-> Absent, category_data |-> Absent,
     uploaded_data |-> Absent, redirect_to |-> Absent]

\* if 'redirect_to' not in st.session_state: st.session_state['redirect_to'] = page
set_redirect(ss, page) ==
    IF ss.redirect_to.present THEN ss ELSE [ss EXCEPT !.redirect_to = Present(page)]

\* The paths written and read.
DefaultPath == "example_data/review_categories.csv"
CustomPath == "example_data/custom_categories_<timestamp>.csv"

\* Mutant of custom_filename: the upload saved under the default path.
custom_filename_default == DefaultPath

\* filename = f"custom_categories_{pd.Timestamp.now().strftime(...)}.csv"
\* df.to_csv(f"example_data/{filename}", index=False)
custom_filename == CustomPath

\* A file that was not written yet, or its content.
NotWritten == [written |-> FALSE]
Written(f) == [written |-> TRUE, content |-> f]

\* df.to_csv(path, index=False): a list-valued cell is written as its str().
to_csv(df) ==
    CsvFile(df.columns,
            [i \in 1..Len(df.rows) |->
                IF HasColumn(df, "aspects_parsed")
                THEN [df.rows[i] EXCEPT !.aspects_parsed =
                         repr_list([j \in 1..Len(@.v) |-> @.v[j].v])]
                ELSE df.rows[i]])

\* The category files uploaded under "Custom Categories API (Upload)": one
\* category, without an 'aspects' column or with its aspect field left empty,
\* so that no aspect text is handed to json.loads.
CustomUploads ==
    {CsvFile(<<"name", "aspectsCount">>, <<[name |-> "Toys", aspectsCount |-> 0]>>),
     CsvFile(CsvColumns, <<[name |-> "Toys", aspectsCount |-> 1, aspects |-> NaN]>>)}

\* df = pd.read_csv(uploaded_file); df['aspects_parsed'] = df['aspects'].apply(
\*     lambda x: json.loads(x) if isinstance(x, str) and x.strip() else [])
custom_categories_frame(u) ==
    IF ~HasColumn(u, "aspects") THEN Frame(u.columns, u.rows)
    ELSE Frame(Append(u.columns, "aspects_parsed"),
               [i \in 1..Len(u.rows) |->
                   [name |-> u.rows[i].name,
                    aspectsCount |-> u.rows[i].aspectsCount,
                    aspects |-> u.rows[i].aspects,
                    aspects_parsed |-> PyList(<<>>)]])

\* The review files uploaded under "Upload CSV": df = pd.read_csv(uploaded_file).
ReviewUploads == {Frame(<<"review">>, <<[review |-> "good"]>>)}

\* Raw aspect fields of an uploaded CSV, and some longer ones.
SampleFields ==
    {repr_list(<<<<"a">>, <<"c">>>>), repr_list(<<<<"a">>, <<"a">>, <<"c">>>>),
     <<"[", "'", "a", "'", ",", " ", "'", "c", "]">>,
     <<" ", "a", " ", ",", " ", "c", " ", "a", ",", ",", "a", " ">>}
RawInputs == AllStrs \cup SampleFields \cup {NaN}

\* ------------------------------------------------------------ Data Upload
UploadIdle ==
    /\ val = NaN
    /\ aspects_list = PyList(<<>>)
    /\ ppc = "idle"
    /\ aspects_parsed = Good(PyList(<<>>), 0)
    /\ lpc = "idle"

SummaryIdle ==
    /\ total_categories = 0
    /\ categories_with_aspects = 0
    /\ categories_without_aspects = 0
    /\ avg_aspects = NanFloat
    /\ avg_metric = Text_nan

TabIdle ==
    /\ sorted_categories = <<>>
    /\ categories_no_aspects_df = <<>>

RunIdle ==
    /\ TabIdle
    /\ category_data = NoneFrame
    /\ max_rows = DefaultMaxRows
    /\ SummaryIdle
    /\ analysis_results = NoneFrame
    /\ bottom_aspects = <<>>
    /\ matrix_df = NoneFrame
    /\ args = NoArgs

SessionIdle ==
    /\ session_state = EmptySession
    /\ custom_file = NotWritten

PageIdle ==
    /\ SessionIdle
    /\ file = CsvFile(CsvColumns, <<>>)
    /\ cache = EmptyCache
    /\ RunIdle
    /\ pc = "idle"

\* A CSV was read: one of its rows' aspect field.
InitParse ==
    /\ val \in RawInputs
    /\ aspects_list = PyList(<<>>)
    /\ ppc = "field"
    /\ aspects_parsed = Good(PyList(<<>>), 0)
    /\ lpc = "field"
    /\ PageIdle

\* df['aspects_list'] = df['aspects'].apply(...)
ParseAspects ==
    /\ ppc = "field"
    /\ aspects_list' = aspects_list_cell(val)
    /\ ppc' = "parsed"
    /\ UNCHANGED <<val, aspects_parsed, lpc, pageVars>>

\* df['aspects_parsed'] = df['aspects'].apply(...) of load_category_data, on
\* the same field.
DeriveAspectsParsed ==
    /\ lpc = "field"
    /\ aspects_parsed' = aspects_parsed_cell(val)
    /\ lpc' = "parsed"
    /\ UNCHANGED <<val, aspects_list, ppc, pageVars>>

NextParse == ParseAspects \/ DeriveAspectsParsed

SpecParse == InitParse /\ [][NextParse]_vars

\* ------------------------------------------------ Category Analysis page
\* The file as an upload left it, the server process just started; the page
\* script starts.
Init ==
    /\ file \in Files
    /\ cache = EmptyCache
    /\ RunIdle
    /\ pc = "start"
    /\ UploadIdle
    /\ SessionIdle

\* category_data = load_category_data(); None stops the script.
PageLoad ==
    /\ pc = "start"
    /\ category_data' = cached_load_category_data(DefaultMaxRows)
    /\ cache' = [cache EXCEPT ![DefaultMaxRows] = Hit(category_data')]
    /\ max_rows' = DefaultMaxRows
    /\ pc' = IF category_data'.none THEN "stopped" ELSE "loaded"
    /\ UNCHANGED <<file, summaryVars, analysis_results, bottom_aspects, matrix_df,
                   args, uploadVars, tabVars, sessionVars>>

\* total_categories ... st.metric("Avg Aspects per Category", ...)
PageSummary ==
    /\ pc = "loaded"
    /\ total_categories' = Len(category_data.rows)
    /\ categories_with_aspects' = len_positive(category_data.rows)
    /\ categories_without_aspects' = total_categories' - categories_with_aspects'
    /\ avg_aspects' = mean(category_data.rows)
    /\ avg_metric' = format_1f(avg_aspects')
    /\ pc' = "summarized"
    /\ UNCHANGED <<file, cache, category_data, max_rows, analysis_results,
                   bottom_aspects, matrix_df, args, uploadVars, tabVars,
                   sessionVars>>

\* analysis_results = analyze_category_aspects(category_data)
PageAnalyze ==
    /\ pc = "summarized"
    /\ analysis_results' = analyze_category_aspects(category_data)
    /\ pc' = "analyzed"
    /\ UNCHANGED <<file, cache, category_data, max_rows, summaryVars, bottom_aspects,
                   matrix_df, args, uploadVars, tabVars, sessionVars>>

\* Tab 1: sorted_categories = category_data.sort_values('aspectsCount',
\* ascending=False)
PageDistribution ==
    /\ pc = "analyzed"
    /\ \E sorted \in sorted_categories_outcomes(category_data.rows) :
           /\ sorted_categories' = sorted
           /\ category_data' = sort_values_receiver(category_data, sorted)
    /\ pc' = "tab1"
    /\ UNCHANGED <<file, cache, max_rows, summaryVars, analysis_results,
                   bottom_aspects, matrix_df, args, categories_no_aspects_df,
                   uploadVars, sessionVars>>

\* bottom_n = min(20, len(aspect_freq))
\* bottom_aspects = aspect_freq.sort_values(by="count", ascending=True).head(bottom_n)
PageLeastUsed ==
    /\ pc = "tab1"
    /\ ~analysis_results.none
    /\ \E sorted \in sort_values_outcomes(analysis_results.rows) :
           bottom_aspects' = head(sorted, Min(TopN, Len(analysis_results.rows)))
    /\ pc' = "least"
    /\ UNCHANGED <<file, cache, category_data, max_rows, summaryVars,
                   analysis_results, matrix_df, args, uploadVars, tabVars,
                   sessionVars>>

\* matrix_df = create_aspect_category_matrix(category_data); an exception
\* ends the script with matrix_df unassigned.
PageMatrix ==
    /\ pc = "least"
    /\ IF create_aspect_category_matrix_raises(category_data)
       THEN /\ pc' = "raised"
            /\ UNCHANGED <<matrix_df, args>>
       ELSE /\ matrix_df' = create_aspect_category_matrix(
                                category_data, DefaultMaxAspects, DefaultMaxCategories)
            /\ args' = [max_aspects |-> DefaultMaxAspects,
                        max_categories |-> DefaultMaxCategories]
            /\ pc' = "done"
    /\ UNCHANGED <<file, cache, category_data, max_rows, summaryVars,
                   analysis_results, bottom_aspects, uploadVars, tabVars,
                   sessionVars>>

\* create_aspect_category_matrix(category_data, max_aspects, max_categories)
\* called with explicit arguments on the analysed collection.
CallMatrix ==
    /\ pc = "analyzed"
    /\ \E ma \in MaxAspectsArgs, mc \in MaxCategoriesArgs :
           IF create_aspect_category_matrix_raises(category_data)
           THEN /\ pc' = "raised"
                /\ UNCHANGED <<matrix_df, args>>
           ELSE /\ matrix_df' = create_aspect_category_matrix(category_data, ma, mc)
                /\ args' = [max_aspects |-> ma, max_categories |-> mc]
                /\ pc' = "called"
    /\ UNCHANGED <<file, cache, category_data, max_rows, summaryVars,
                   analysis_results, bottom_aspects, uploadVars, tabVars,
                   sessionVars>>

\* Tab 3: if analysis_results is not None:
\*     categories_no_aspects_df = category_data[category_data['aspectsCount'] == 0]
PageWithoutAspects ==
    /\ pc = "done"
    /\ categories_no_aspects_df' =
           IF analysis_results.none THEN categories_no_aspects_df
           ELSE no_aspects_rows(category_data.rows)
    /\ pc' = "tab3"
    /\ UNCHANGED <<file, cache, category_data, max_rows, summaryVars,
                   analysis_results, bottom_aspects, matrix_df, args,
                   sorted_categories, uploadVars, sessionVars>>

Next ==
    \/ PageLoad \/ PageSummary \/ PageAnalyze \/ PageDistribution \/ PageLeastUsed
    \/ PageMatrix \/ PageWithoutAspects \/ CallMatrix

Spec == Init /\ [][Next]_vars

\* ------------------------------------------- uploads and page runs
\* An upload writes its data to example_data/review_categories.csv
\* (df.to_csv / categories_df.to_csv), at any moment, and notes the path and
\* the page to go to in the session.
Upload ==
    /\ \E f \in UploadFiles : file' = f
    /\ session_state' =
           set_redirect(
               [session_state EXCEPT !.category_data_path = Present(DefaultPath)],
               "/Category_Analysis")
    /\ UNCHANGED <<cache, category_data, max_rows, summaryVars, analysis_results,
                   bottom_aspects, matrix_df, args, pc, uploadVars, tabVars,
                   custom_file>>

\* "Custom Categories API (Upload)": the uploaded file is read, saved under
\* its own name and kept in the session.
CustomUpload ==
    /\ \E u \in CustomUploads :
           LET df == custom_categories_frame(u)
           IN  /\ file' = IF custom_filename = DefaultPath THEN to_csv(df) ELSE file
               /\ custom_file' = IF custom_filename = CustomPath
                                 THEN Written(to_csv(df)) ELSE custom_file
               /\ session_state' = [session_state EXCEPT !.category_data = Present(df)]
    /\ UNCHANGED <<cache, category_data, max_rows, summaryVars, analysis_results,
                   bottom_aspects, matrix_df, args, pc, uploadVars, tabVars>>

\* "Use This Data for Analysis": the uploaded reviews are kept in the session.
UseUploadedData ==
    /\ \E df \in ReviewUploads :
           session_state' =
               set_redirect([session_state EXCEPT !.uploaded_data = Present(df)],
                            "/Analytics_Charts")
    /\ UNCHANGED <<file, cache, category_data, max_rows, summaryVars,
                   analysis_results, bottom_aspects, matrix_df, args, pc,
                   uploadVars, tabVars, custom_file>>

\* The page is opened again (the redirect after an upload, a reload): the
\* script runs from its first line; the cache is the server's and stays.
PageRerun ==
    /\ pc \in {"stopped", "summarized", "analyzed"}
    /\ category_data' = NoneFrame
    /\ max_rows' = DefaultMaxRows
    /\ total_categories' = 0
    /\ categories_with_aspects' = 0
    /\ categories_without_aspects' = 0
    /\ avg_aspects' = NanFloat
    /\ avg_metric' = Text_nan
    /\ analysis_results' = NoneFrame
    /\ pc' = "start"
    /\ UNCHANGED <<file, cache, bottom_aspects, matrix_df, args, uploadVars, tabVars,
                   sessionVars>>

InitCache ==
    /\ file \in UploadFiles
    /\ cache = EmptyCache
    /\ RunIdle
    /\ pc = "start"
    /\ UploadIdle
    /\ SessionIdle

NextCache ==
    \/ Upload \/ CustomUpload \/ UseUploadedData
    \/ PageLoad \/ PageSummary \/ PageAnalyze \/ PageRerun

SpecCache == InitCache /\ [][NextCache]_vars

\* ------------------------------------------------- calls of the functions
\* load_category_data(max_rows=mr)
CallLoad ==
    /\ pc = "start"
    /\ \E mr \in MaxRowsArgs :
           /\ category_data' = cached_load_category_data(mr)
           /\ cache' = [cache EXCEPT ![mr] = Hit(category_data')]
           /\ max_rows' = mr
    /\ pc' = "got"
    /\ UNCHANGED <<file, summaryVars, analysis_results, bottom_aspects, matrix_df,
                   args, uploadVars, tabVars, sessionVars>>

\* analyze_category_aspects(category_data), whatever the load returned.
CallAnalyze ==
    /\ pc = "got"
    /\ analysis_results' = analyze_category_aspects(category_data)
    /\ pc' = "analyzed"
    /\ UNCHANGED <<file, cache, category_data, max_rows, summaryVars, bottom_aspects,
                   matrix_df, args, uploadVars, tabVars, sessionVars>>

\* The server process starts anew: its cache is empty.
Restart ==
    /\ pc = "called"
    /\ cache # EmptyCache
    /\ cache' = EmptyCache
    /\ UNCHANGED <<file, category_data, max_rows, summaryVars, analysis_results,
                   bottom_aspects, matrix_df, args, pc, uploadVars, tabVars,
                   sessionVars>>

\* The same calls once more: the file loaded with the same max_rows, the
\* table and the matrix computed from the collection held.
Recompute ==
    /\ pc = "called"
    /\ category_data' = cached_load_category_data(max_rows)
    /\ cache' = [cache EXCEPT ![max_rows] = Hit(category_data')]
    /\ analysis_results' = analyze_category_aspects(category_data)
    /\ matrix_df' = create_aspect_category_matrix(category_data, args.max_aspects,
                                                  args.max_categories)
    /\ pc' = "again"
    /\ UNCHANGED <<file, max_rows, summaryVars, bottom_aspects, args, uploadVars,
                   tabVars, sessionVars>>

InitCalls ==
    /\ file \in CallFiles
    /\ cache = EmptyCache
    /\ RunIdle
    /\ pc = "start"
    /\ UploadIdle
    /\ SessionIdle

NextCalls == CallLoad \/ CallAnalyze \/ CallMatrix \/ Restart \/ Recompute

SpecCalls == InitCalls /\ [][NextCalls]_vars

\* =============================================================== claims
\* What the claims speak of, stated without the program's own algorithms.
AnalysisDone ==
    /\ pc \in {"analyzed", "tab1", "least", "called", "done", "tab3"}
    /\ ~analysis_results.none
MatrixDone == pc \in {"called", "done", "tab3"} /\ ~matrix_df.none

\* The parsed aspect lists of the loaded collection, one per row.
ParsedLists ==
    [i \in 1..Len(category_data.rows) |->
        IF category_data.rows[i].aspects_parsed.t = "list"
        THEN category_data.rows[i].aspects_parsed.v ELSE <<>>]

Occurrences(lst, a) == Cardinality({i \in 1..Len(lst) : lst[i] = a})

RECURSIVE TotalOccurrences(_, _)
TotalOccurrences(lists, a) ==
    IF lists = <<>> THEN 0
    ELSE Occurrences(lists[1], a) + TotalOccurrences(Tail(lists), a)

RECURSIVE TotalLength(_)
TotalLength(lists) ==
    IF lists = <<>> THEN 0 ELSE Len(lists[1]) + TotalLength(Tail(lists))

RECURSIVE SumOfCounts(_)
SumOfCounts(rws) == IF rws = <<>> THEN 0 ELSE rws[1].count + SumOfCounts(Tail(rws))

AspectsOccurring ==
    UNION {{ParsedLists[i][j] : j \in 1..Len(ParsedLists[i])} : i \in 1..Len(ParsedLists)}

\* The rows' lists scanned in row order, each left to right.
RECURSIVE Scan(_)
Scan(lists) == IF lists = <<>> THEN <<>> ELSE lists[1] \o Scan(Tail(lists))

\* Where the scan first meets aspect a.
FirstSeen(a) ==
    CHOOSE i \in 1..Len(Scan(ParsedLists)) :
        /\ Scan(ParsedLists)[i] = a
        /\ \A j \in 1..(i - 1) : Scan(ParsedLists)[j] # a

\* C1: the frequency table has exactly one entry per distinct aspect string
\* of the rows' parsed lists, and the entry's count is the total number of
\* occurrences of the string over all rows, repeats within a row included.
C1_FrequencyCountsOccurrences ==
    AnalysisDone =>
        LET T == analysis_results.rows IN
        /\ \A i, j \in 1..Len(T) : i # j => T[i].aspect # T[j].aspect
        /\ {T[i].aspect : i \in 1..Len(T)} = AspectsOccurring
        /\ \A i \in 1..Len(T) : T[i].count = TotalOccurrences(ParsedLists, T[i].aspect)

\* An aspect repeated inside one row's list: its count exceeds the number of
\* categories that hold it.
C1_Witness ==
    /\ AnalysisDone
    /\ \E i \in 1..Len(analysis_results.rows) :
           analysis_results.rows[i].count >
               Cardinality({r \in 1..Len(ParsedLists) :
                   Occurrences(ParsedLists[r], analysis_results.rows[i].aspect) > 0})

\* C2: the counts of the frequency table sum to the total length of the
\* rows' parsed lists.
C2_CountsSumToLengths ==
    AnalysisDone => SumOfCounts(analysis_results.rows) = TotalLength(ParsedLists)

\* Two rows with non-empty lists that hold both aspects, one repeated.
C2_Witness ==
    /\ AnalysisDone
    /\ Len(ParsedLists) = 2
    /\ TotalLength(ParsedLists) >= 3
    /\ Len(analysis_results.rows) = 2
    /\ \A r \in 1..Len(ParsedLists) : Len(ParsedLists[r]) > 0

\* C3: the frequency table is in non-increasing order of count, and aspects
\* of equal count are in the order the scan of the rows first met them.
C3_DescendingFirstSeenTies ==
    AnalysisDone =>
        LET T == analysis_results.rows IN
        \A i, j \in 1..Len(T) : i < j =>
            \/ T[i].count > T[j].count
            \/ /\ T[i].count = T[j].count
               /\ FirstSeen(T[i].aspect) < FirstSeen(T[j].aspect)

\* A tie that the alphabet would order the other way ("A" sorts before "a").
C3_Witness ==
    /\ AnalysisDone
    /\ Len(analysis_results.rows) = 2
    /\ analysis_results.rows[1].count = analysis_results.rows[2].count
    /\ analysis_results.rows[1].aspect = PyStr(<<"a">>)
    /\ analysis_results.rows[2].aspect = PyStr(<<"A">>)

MatrixAspect(i) == matrix_df.rows[i][1][2]
CategoryColumns ==
    IF matrix_df.columns = <<>> THEN <<>> ELSE Tail(matrix_df.columns)
MatrixCell(i, c) ==
    matrix_df.rows[i][CHOOSE j \in 1..Len(matrix_df.rows[i]) : matrix_df.rows[i][j][1] = c][2]
\* The row of the collection named c (names are unique).
RowNamed(c) ==
    CHOOSE r \in 1..Len(category_data.rows) : category_data.rows[r].name = c

\* C5: every cell (a, c) of the matrix is 0 or 1, and is 1 exactly when a
\* occurs, once or more, in the parsed list of category c (the same string,
\* letter case included).
C5_CellIsPresence ==
    MatrixDone =>
        \A i \in 1..Len(matrix_df.rows) :
            /\ Len(matrix_df.rows[i]) = Len(matrix_df.columns)
            /\ \A j \in 1..Len(matrix_df.columns) :
                   matrix_df.rows[i][j][1] = matrix_df.columns[j]
            /\ \A j \in 1..Len(CategoryColumns) :
                   LET c == CategoryColumns[j]
                       present == Occurrences(ParsedLists[RowNamed(c)], MatrixAspect(i)) >= 1
                   IN  /\ MatrixCell(i, c) \in {0, 1}
                       /\ MatrixCell(i, c) = 1 <=> present

\* A cell 1 for an aspect the category's list holds twice, and a cell 0 for a
\* category whose list holds the aspect in the other letter case only.
C5_Witness ==
    /\ MatrixDone
    /\ \E i \in 1..Len(matrix_df.rows), j \in 1..Len(CategoryColumns) :
           /\ MatrixCell(i, CategoryColumns[j]) = 1
           /\ Occurrences(ParsedLists[RowNamed(CategoryColumns[j])], MatrixAspect(i)) = 2
    /\ \E i \in 1..Len(matrix_df.rows), j \in 1..Len(CategoryColumns) :
           /\ MatrixCell(i, CategoryColumns[j]) = 0
           /\ MatrixAspect(i) = PyStr(<<"a">>)
           /\ Occurrences(ParsedLists[RowNamed(CategoryColumns[j])], PyStr(<<"A">>)) >= 1

\* C6: the matrix has min(maxAspects, distinct aspects) rows and
\* 1 + min(maxCategories, categories) columns, the first being 'aspect',
\* also when no row of the collection has any aspect.
C6_MatrixShape ==
    MatrixDone =>
        /\ Len(matrix_df.rows) = Min(args.max_aspects, Cardinality(AspectsOccurring))
        /\ Len(matrix_df.columns) =
               1 + Min(args.max_categories, Len(category_data.rows))
        /\ Len(matrix_df.columns) >= 1
        /\ matrix_df.columns[1] = "aspect"

\* The shape holds of every matrix that has a row.
MatrixShapeWhenRows ==
    (MatrixDone /\ Len(matrix_df.rows) > 0) => C6_MatrixShape

\* C7: the rows of the matrix are, in order, the first
\* min(maxAspects, distinct aspects) entries of the frequency table that
\* analyze_category_aspects returned for the collection.
C7_RowsAreTopOfFrequencyTable ==
    (MatrixDone /\ AnalysisDone) =>
        LET T == analysis_results.rows
            n == Min(args.max_aspects, Cardinality(AspectsOccurring))
        IN  /\ Len(matrix_df.rows) = n
            /\ \A i \in 1..n : MatrixAspect(i) = T[i].aspect

\* The matrix cut to one of two aspects of equal count.
C7_Witness ==
    /\ MatrixDone
    /\ AnalysisDone
    /\ args.max_aspects = 1
    /\ Len(matrix_df.rows) = 1
    /\ Len(analysis_results.rows) = 2
    /\ analysis_results.rows[1].count = analysis_results.rows[2].count

\* C8: the category columns are the names of the
\* min(maxCategories, categories) rows of largest aspectsCount, by descending
\* aspectsCount, rows of equal aspectsCount in their original order, whatever
\* the parsed lists and the selected aspects are.
C8_ColumnsAreTopCategories ==
    MatrixDone =>
        LET rws == category_data.rows
            cols == CategoryColumns
            sel == {RowNamed(cols[j]) : j \in 1..Len(cols)}
            Before(r, s) ==
                \/ rws[r].aspectsCount > rws[s].aspectsCount
                \/ rws[r].aspectsCount = rws[s].aspectsCount /\ r < s
        IN  /\ Len(cols) = Min(args.max_categories, Len(rws))
            /\ \A j \in 1..Len(cols) : \E r \in 1..Len(rws) : rws[r].name = cols[j]
            /\ \A j, l \in 1..Len(cols) :
                   j < l => Before(RowNamed(cols[j]), RowNamed(cols[l]))
            /\ \A s \in sel, u \in (1..Len(rws)) \ sel : Before(s, u)

\* The columns are those categories in every matrix that has a row.
ColumnsWhenRows ==
    (MatrixDone /\ Len(matrix_df.rows) > 0) => C8_ColumnsAreTopCategories

\* ----------------------------------------------------- the parser's claims
Parsed == ppc = "parsed" /\ val # NaN
Bracketed(s) == Len(s) > 0 /\ s[1] = "[" /\ s[Len(s)] = "]"

\* The comma-separated tokens of s by position: the k-th piece lies between
\* the (k-1)-th and the k-th comma.
CommaAt(s) == {i \in 1..Len(s) : s[i] = ","}
NthComma(s, k) ==
    CHOOSE i \in CommaAt(s) : Cardinality({j \in CommaAt(s) : j < i}) = k - 1
PieceFrom(s, k) == IF k = 1 THEN 1 ELSE NthComma(s, k - 1) + 1
PieceTo(s, k) ==
    IF k = Cardinality(CommaAt(s)) + 1 THEN Len(s) ELSE NthComma(s, k) - 1
\* The positions of the k-th piece that hold no whitespace.
Inked(s, k) == {i \in PieceFrom(s, k)..PieceTo(s, k) : s[i] # " "}
Lowest(S) == CHOOSE x \in S : \A y \in S : x <= y
Highest(S) == CHOOSE x \in S : \A y \in S : x >= y
\* The pieces that are not empty once trimmed, and the m-th of them.
Kept(s) == {k \in 1..(Cardinality(CommaAt(s)) + 1) : Inked(s, k) # {}}
NthKept(s, m) ==
    CHOOSE k \in Kept(s) : Cardinality({l \in Kept(s) : l < k}) = m - 1
Tokens(s) ==
    [m \in 1..Cardinality(Kept(s)) |->
        PyStr(SubSeq(s, Lowest(Inked(s, NthKept(s, m))),
                        Highest(Inked(s, NthKept(s, m)))))]

\* C9: of a raw string that is not bracketed, the parser returns the pieces
\* between commas, each trimmed, the empty ones dropped, in their order and
\* with repeats kept.
C9_CommaSplitTokens ==
    (Parsed /\ ~Bracketed(val)) => aspects_list = PyList(Tokens(val))

\* A field with a piece to trim, an empty piece and a repeated token.
C9_Witness ==
    /\ Parsed
    /\ ~Bracketed(val)
    /\ Cardinality(Kept(val)) < Cardinality(CommaAt(val)) + 1
    /\ \E i \in 1..Len(val) : val[i] = " "
    /\ Len(aspects_list.v) >= 2
    /\ aspects_list.v[1] = aspects_list.v[Len(aspects_list.v)]
    /\ \E i \in 1..Len(aspects_list.v) : aspects_list.v[i] # aspects_list.v[1]

\* C10: of a field that starts with "[" and ends with "]" and is no list
\* literal, the parser returns the comma-split of the raw string (and the
\* empty list only if the split has no token); it does not raise.
C10_MalformedFallsBackToSplit ==
    (Parsed /\ Bracketed(val) /\ ~literal_eval(val).ok) =>
        aspects_list = PyList(Tokens(val))

\* What the parser returns of such a field: the empty list.
MalformedGivesEmpty ==
    (Parsed /\ Bracketed(val) /\ ~literal_eval(val).ok) => aspects_list = PyList(<<>>)

\* ------------------------------------------------ the loader's claims
\* A call of load_category_data has returned.
LoadReturned == pc \in {"got", "analyzed", "called", "raised", "again"}
\* A field the loader takes for a list literal and that is none.
MalformedBracket(x) ==
    /\ x # NaN
    /\ \E i \in 1..Len(x) : x[i] = "[" /\ \A j \in 1..(i - 1) : x[j] = " "
    /\ ~literal_eval(x).ok

\* C11: when a row of the file holds a malformed bracketed aspect field,
\* load_category_data returns the collection, not None; the parsed aspects
\* of a malformed row are the comma-split of its field (the fallback policy)
\* and those of every other row are what the row's field gives by itself.
C11_MalformedRowRecoveredLocally ==
    (/\ LoadReturned
     /\ HasColumn(file, "aspects")
     /\ \E i \in 1..Len(file.rows) : MalformedBracket(file.rows[i].aspects)) =>
        /\ ~category_data.none
        /\ \A i \in 1..Len(category_data.rows) :
               LET r == category_data.rows[i] IN
               IF MalformedBracket(r.aspects)
               THEN r.aspects_parsed = PyList(Tokens(r.aspects))
               ELSE r.aspects_parsed = aspects_parsed_cell(r.aspects).val

\* ------------------------------------------- the two parsing call sites
\* An absent field, the empty string, or whitespace only.
Blank(x) == x = NaN \/ \A i \in 1..Len(x) : x[i] = " "

\* C12: of a raw aspect field that is absent, empty or whitespace only, both
\* call sites give the empty list: parse_aspects as the Data Upload page
\* applies it, and the aspects_parsed of load_category_data, which does not
\* raise.
C12_BlankFieldParsesEmpty ==
    /\ (ppc = "parsed" /\ Blank(val)) => aspects_list = PyList(<<>>)
    /\ (lpc = "parsed" /\ Blank(val)) =>
           aspects_parsed.ok /\ aspects_parsed.val = PyList(<<>>)

\* A field of several blanks, parsed at both call sites.
C12_Witness ==
    /\ ppc = "parsed"
    /\ lpc = "parsed"
    /\ val # NaN
    /\ Len(val) >= 2
    /\ Blank(val)
    /\ aspects_list = PyList(<<>>)
    /\ aspects_parsed.val = PyList(<<>>)

\* A list literal of strings.
ListOfStrings(v) == v.t = "list" /\ \A i \in 1..Len(v.v) : v.v[i].t = "str"
ListLiteral(x) == literal_eval(x).ok /\ ListOfStrings(literal_eval(x).val)
\* The accepted formats: a list literal of strings, or a string that is not
\* bracketed at all, read as comma-separated.
Accepted(x) ==
    /\ x # NaN
    /\ ListLiteral(x) \/ \A i \in 1..Len(x) : x[i] \notin {"[", "]"}
\* A string that is not empty and neither starts nor ends with whitespace.
Trimmed(e) == e.t = "str" /\ e.v # <<>> /\ e.v[1] # " " /\ e.v[Len(e.v)] # " "

\* C13: of a raw aspect field in an accepted format, every element of the
\* parsed result is a string that is not empty and has no leading or
\* trailing whitespace, at both call sites.
C13_ElementsTrimmedNonEmpty ==
    /\ (ppc = "parsed" /\ Accepted(val)) =>
           /\ aspects_list.t = "list"
           /\ \A i \in 1..Len(aspects_list.v) : Trimmed(aspects_list.v[i])
    /\ (lpc = "parsed" /\ Accepted(val)) =>
           /\ aspects_parsed.ok
           /\ aspects_parsed.val.t = "list"
           /\ \A i \in 1..Len(aspects_parsed.val.v) : Trimmed(aspects_parsed.val.v[i])

\* What does hold: the elements of the result are the elements of the
\* literal as written, and the tokens of a comma-separated string are trimmed.
LiteralElementsAsWritten ==
    /\ (ppc = "parsed" /\ val # NaN /\ Bracketed(val) /\ ListLiteral(val)) =>
           aspects_list = literal_eval(val).val
    /\ (ppc = "parsed" /\ val # NaN /\ ~Bracketed(val)) =>
           \A i \in 1..Len(aspects_list.v) : Trimmed(aspects_list.v[i])

\* C14: for every raw aspect field the aspects_parsed that load_category_data
\* derives is the list that the Data Upload page's parse_aspects gives for
\* the same field (and the derivation does not raise).
C14_CallSitesAgree ==
    (ppc = "parsed" /\ lpc = "parsed") =>
        aspects_parsed.ok /\ aspects_parsed.val = aspects_list

\* Where the two call sites do agree: absent and blank fields, and list
\* literals that start with "[" and end with "]".
CallSitesAgreeOnLiterals ==
    (/\ ppc = "parsed"
     /\ lpc = "parsed"
     /\ Blank(val) \/ (Bracketed(val) /\ literal_eval(val).ok)) =>
        aspects_parsed.ok /\ aspects_parsed.val = aspects_list

\* ------------------------------------------------ the end-to-end scenario
\* C15: of the file with Electronics (aspectsCount 2, aspects
\* "['Product/Price','Service/Staff']") and Food (aspectsCount 1, aspects
\* "Product/Price"), loaded and analysed, the frequency table is
\* Product/Price = 2, Service/Staff = 1 in that order, and the matrix of
\* max_aspects = 2 and max_categories = 2 has Product/Price = 1 under
\* Electronics and Food, Service/Staff = 1 under Electronics and 0 under Food.
C15_EndToEndExample ==
    /\ (file = ExampleFile /\ AnalysisDone) =>
           analysis_results.rows =
               <<[aspect |-> PyStr(ProductPrice), count |-> 2],
                 [aspect |-> PyStr(ServiceStaff), count |-> 1]>>
    /\ (file = ExampleFile /\ MatrixDone
            /\ args = [max_aspects |-> 2, max_categories |-> 2]) =>
           /\ Len(matrix_df.rows) = 2
           /\ matrix_df.columns = <<"aspect", "Electronics", "Food">>
           /\ MatrixAspect(1) = PyStr(ProductPrice)
           /\ MatrixCell(1, "Electronics") = 1
           /\ MatrixCell(1, "Food") = 1
           /\ MatrixAspect(2) = PyStr(ServiceStaff)
           /\ MatrixCell(2, "Electronics") = 1
           /\ MatrixCell(2, "Food") = 0

\* What the scenario gives: Food's plain field is parsed to the empty list,
\* so each aspect is counted once and Food's column holds no 1.
ExampleAsComputed ==
    /\ (file = ExampleFile /\ AnalysisDone) =>
           analysis_results.rows =
               <<[aspect |-> PyStr(ProductPrice), count |-> 1],
                 [aspect |-> PyStr(ServiceStaff), count |-> 1]>>
    /\ (file = ExampleFile /\ MatrixDone
            /\ args = [max_aspects |-> 2, max_categories |-> 2]) =>
           /\ matrix_df.columns = <<"aspect", "Electronics", "Food">>
           /\ MatrixCell(1, "Electronics") = 1
           /\ MatrixCell(1, "Food") = 0
           /\ MatrixCell(2, "Electronics") = 1
           /\ MatrixCell(2, "Food") = 0

\* ------------------------------------------------------------ the cache
\* C16: in every sequence of uploads and page runs, the collection that the
\* page's load_category_data() returns is the one a load of the file without
\* the cache returns at that moment.
C16_CacheTransparent ==
    [][PageLoad => category_data' = load_category_data(file, DefaultMaxRows)]_vars

\* The first load of a server process is a load of the file.
FirstLoadIsFresh ==
    [][(PageLoad /\ cache = EmptyCache) =>
           category_data' = load_category_data(file, DefaultMaxRows)]_vars

MissingData ==
    \/ category_data.none
    \/ ~HasColumn(category_data, "aspects_parsed")
    \/ category_data.rows = <<>>
AnalyzeReturned == pc \in {"analyzed", "called", "raised", "again"}
MatrixCalled == pc \in {"called", "raised", "again"}
\* None, or a table without a row.
AbsentOrEmpty(df) == df.none \/ df.rows = <<>>

\* C18: given an absent collection, a collection without a parsed-aspects
\* column or a collection without a row, analyze_category_aspects and
\* create_aspect_category_matrix do not raise: each returns None or an
\* empty table.
C18_NoRaiseOnMissingData ==
    /\ (AnalyzeReturned /\ MissingData) => AbsentOrEmpty(analysis_results)
    /\ (MatrixCalled /\ MissingData) =>
           pc # "raised" /\ AbsentOrEmpty(matrix_df)

\* What does hold: analyze_category_aspects returns None or an empty table,
\* and create_aspect_category_matrix does unless the collection has no row
\* and an aspectsCount column of dtype object (a file without a record).
NoRaiseUnlessObjectColumn ==
    /\ (AnalyzeReturned /\ MissingData) => AbsentOrEmpty(analysis_results)
    /\ (MatrixCalled /\ MissingData /\ file.rows # <<>>) =>
           pc # "raised" /\ AbsentOrEmpty(matrix_df)
    /\ pc = "raised" => file.rows = <<>> /\ HasColumn(file, "aspects")

\* ---------------------------------------------------- summary statistics
\* The page has shown its summary metrics.
Summarized ==
    pc \in {"summarized", "analyzed", "tab1", "least", "called", "done", "tab3", "raised"}
RowsWhere(P(_)) == Cardinality({i \in 1..Len(category_data.rows) : P(category_data.rows[i])})
RECURSIVE DeclaredTotal(_)
DeclaredTotal(i) ==
    IF i = 0 THEN 0 ELSE category_data.rows[i].aspectsCount + DeclaredTotal(i - 1)

\* C19: the summary of a loaded collection shows total = the number of rows,
\* withAspects = the rows of declared aspectsCount > 0, withoutAspects = the
\* rows of declared aspectsCount 0, the two adding up to total, and mean =
\* (sum of aspectsCount) / total; of the two-row example (aspectsCount 2 and
\* 1) it shows 2, 2, 0 and 1.5; of a collection without a row the mean is
\* nan and nothing raises.
C19_SummaryStatistics ==
    Summarized =>
        LET HasAspects(r) == r.aspectsCount > 0
            HasNone(r) == r.aspectsCount = 0
            n == Len(category_data.rows)
        IN  /\ total_categories = n
            /\ categories_with_aspects = RowsWhere(HasAspects)
            /\ categories_without_aspects = RowsWhere(HasNone)
            /\ categories_with_aspects + categories_without_aspects = total_categories
            /\ IF n = 0 THEN avg_aspects.nan /\ avg_metric = Text_nan
               ELSE /\ ~avg_aspects.nan
                    /\ avg_aspects.num * n = DeclaredTotal(n) * avg_aspects.den
            /\ file = ExampleFile =>
                   /\ total_categories = 2
                   /\ categories_with_aspects = 2
                   /\ categories_without_aspects = 0
                   /\ avg_aspects.num * 2 = 3 * avg_aspects.den
                   /\ avg_metric = Text_1f(15)

\* A collection of a category with aspects and one without: the mean is no
\* integer.
C19_Witness ==
    /\ Summarized
    /\ total_categories = 2
    /\ categories_with_aspects = 1
    /\ categories_without_aspects = 1
    /\ avg_aspects.num = 1
    /\ avg_aspects.den = 2
    /\ avg_metric = Text_1f(5)

\* ------------------------------------------------------ the load's bound
\* A row of the collection without the column the load adds.
AsInFile(r) ==
    IF HasColumn(category_data, "aspects_parsed")
    THEN [name |-> r.name, aspectsCount |-> r.aspectsCount, aspects |-> r.aspects]
    ELSE r
\* The returned rows are rows of the file, each taken from a position of its
\* own.
RowsOfFileOnce ==
    \E f \in [1..Len(category_data.rows) -> 1..Len(file.rows)] :
        /\ \A i, j \in 1..Len(category_data.rows) : i # j => f[i] # f[j]
        /\ \A i \in 1..Len(category_data.rows) :
               AsInFile(category_data.rows[i]) = file.rows[f[i]]
LoadBounds ==
    /\ Len(category_data.rows) = Min(Len(file.rows), max_rows)
    /\ RowsOfFileOnce
    /\ Len(file.rows) <= max_rows =>
           \A i \in 1..Len(file.rows) : AsInFile(category_data.rows[i]) = file.rows[i]

\* C20: of a file of n rows and a limit max_rows, load_category_data returns
\* a collection of exactly min(n, max_rows) rows, every one a row of the
\* file and none returned twice; for n <= max_rows they are the file's rows
\* in the file's order.
C20_LoadBoundsRows ==
    LoadReturned => ~category_data.none /\ LoadBounds

\* The bound holds of every load that returns a collection.
LoadBoundsWhenReturned ==
    (LoadReturned /\ ~category_data.none) => LoadBounds

\* A file of two rows cut to one: the sample is the file's second row.
SampledSecondRow ==
    /\ LoadReturned
    /\ ~category_data.none
    /\ max_rows = 1
    /\ Len(file.rows) = 2
    /\ category_data.rows[1].name = "Food"

\* ------------------------------------------------- the collection after load
\* The page holds a collection: the load returned one and the script went on.
CollectionHeld == pc \notin {"start", "stopped"}

\* C21: once loaded, the collection is never changed by what is computed from
\* it (the summary statistics, analyze_category_aspects, the sorting of Tab 1,
\* the least used listing, create_aspect_category_matrix, the listing of
\* Tab 3): at every later point of the page script it is, column for column
\* and row for row in the same order, what load_category_data returned.
C21_CollectionNeverMutated ==
    CollectionHeld => category_data = load_category_data(file, DefaultMaxRows)

\* Every computation was made on two categories that the sorting of Tab 1
\* puts in another order.
C21_Witness ==
    /\ pc = "tab3"
    /\ Len(category_data.rows) = 2
    /\ sorted_categories # [i \in 1..2 |-> category_data.rows[i]]
    /\ ~matrix_df.none

\* ------------------------------------------------------- the session state
\* What a run of the Category Analysis page is given to analyse:
\* load_category_data() as decorated, of the default path.
PageData(f, c) ==
    IF c[DefaultMaxRows].miss THEN load_category_data(f, DefaultMaxRows)
    ELSE c[DefaultMaxRows].value

\* C22: what the Category Analysis page analyses is load_category_data() of
\* example_data/review_categories.csv with the default arguments and nothing
\* else: a "Custom Categories API (Upload)" upload (its own timestamped file
\* and the session entry category_data) and "Use This Data for Analysis" (the
\* session entries uploaded_data and redirect_to) leave what the page is
\* given as it was, and every run of the page takes exactly that.
C22_SessionStateIgnored ==
    [][/\ (CustomUpload \/ UseUploadedData) =>
              PageData(file', cache') = PageData(file, cache)
       /\ PageLoad => category_data' = PageData(file, cache)]_vars

\* The session holds an uploaded custom collection, its file was written,
\* the path and the redirect were noted, and the page analysed another
\* collection, that of the default file.
C22_Witness ==
    /\ session_state.category_data.present
    /\ session_state.category_data_path.present
    /\ session_state.uploaded_data.present
    /\ session_state.redirect_to.present
    /\ custom_file.written
    /\ pc = "analyzed"
    /\ ~category_data.none
    /\ category_data.rows[1].name # session_state.category_data.value.rows[1].name

\* ------------------------------------------- categories without aspects
\* Tab 3 was computed.
WithoutAspectsListed == pc = "tab3"

============================================================================
